---------------------------- MODULE Spec2Model ----------------------------
(***************************************************************************)
(* Model of generate_drawio_diagram (src/interconnection_drawio.py): the   *)
(* filter of the input rows, the topology index, the layout walk, the pin  *)
(* markers, the lane offsets and the routed wires.                         *)
(*                                                                         *)
(* Strings are sequences of one-character strings, so that the keys the    *)
(* program builds by formatting (f"{mod}:{conn}") are concatenations and   *)
(* the orders it obtains from sorted() are code-point orders.              *)
(***************************************************************************)
EXTENDS Integers, Sequences, FiniteSets, TLC

VARIABLES rows, df, left_connectors, right_connectors, connections,
          sorted_left_modules, walk, left_positions, right_positions,
          current_y, pin_ids, cell_id, left_connector_offsets,
          right_connector_offsets, edges, written, error, last_step, pc

vars == <<rows, df, left_connectors, right_connectors, connections,
          sorted_left_modules, walk, left_positions, right_positions,
          current_y, pin_ids, cell_id, left_connector_offsets,
          right_connector_offsets, edges, written, error, last_step, pc>>

---------------------------------------------------------------------------
(* Strings *)

\* The characters the inputs use, in ascending code-point order.
Ascii ==
    <<" ", ".", "/", "0", "1", "2", "3", "4", "5", "6", "7", "8", "9", ":",
      "A", "B", "C", "D", "G", "N", "S", "V", "X", "Y", "Z", "_",
      "a", "c", "d", "e", "g", "n", "o", "t", "v">>

Ord(c) == CHOOSE i \in 1..Len(Ascii) : Ascii[i] = c

Digits == {"0", "1", "2", "3", "4", "5", "6", "7", "8", "9"}

\* str < str of Python: lexicographic on code points, a proper prefix first.
RECURSIVE StrLess(_, _)
StrLess(a, b) ==
    IF b = <<>> THEN FALSE
    ELSE IF a = <<>> THEN TRUE
    ELSE IF a[1] = b[1] THEN StrLess(Tail(a), Tail(b))
    ELSE Ord(a[1]) < Ord(b[1])

\* str.startswith
StartsWith(s, p) == Len(p) <= Len(s) /\ SubSeq(s, 1, Len(p)) = p

\* str.lower on the characters of Ascii
LowerChar(c) ==
    CASE c = "A" -> "a" [] c = "C" -> "c" [] c = "D" -> "d" [] c = "G" -> "g"
      [] c = "N" -> "n" [] c = "V" -> "v" [] c = "B" -> "b" [] c = "S" -> "s"
      [] c = "X" -> "x" [] c = "Y" -> "y" [] c = "Z" -> "z" [] OTHER -> c

Lower(s) == [i \in 1..Len(s) |-> LowerChar(s[i])]

\* str.strip
RECURSIVE LStrip(_)
LStrip(s) == IF s # <<>> /\ s[1] = " " THEN LStrip(Tail(s)) ELSE s

RECURSIVE RStrip(_)
RStrip(s) ==
    IF s # <<>> /\ s[Len(s)] = " " THEN RStrip(SubSeq(s, 1, Len(s) - 1)) ELSE s

Strip(s) == RStrip(LStrip(s))

\* A missing cell of the sheet (pandas NaN); no string equals it.
NaN == <<"NaN">>

\* sorted(seq, key=...): the stable sort of s, where lt[i][j] says that the
\* key of s[i] is less than the key of s[j].
SortBy(s, lt) ==
    LET n == Len(s)
        pos(i) == 1 + Cardinality({j \in 1..n :
                        lt[j][i] \/ (~lt[i][j] /\ j < i)})
    IN  [k \in 1..n |-> s[CHOOSE i \in 1..n : pos(i) = k]]

\* A set of strings as the sequence sorted() returns.
RECURSIVE SetToSeq(_)
SetToSeq(S) ==
    IF S = {} THEN <<>>
    ELSE LET e == CHOOSE e \in S : TRUE IN <<e>> \o SetToSeq(S \ {e})

SortedStrings(S) ==
    LET s == SetToSeq(S)
    IN  SortBy(s, [i \in 1..Len(s) |-> [j \in 1..Len(s) |-> StrLess(s[i], s[j])]])

Range(s) == {s[i] : i \in 1..Len(s)}

\* max() that keeps its first argument.
MaxKeepsFirst(a, b) == a

Max(a, b) == IF a >= b THEN a ELSE b

---------------------------------------------------------------------------
(* Signal classifier *)

NotConnected ==
    { <<>>, <<"n", "c">>, <<"n", "/", "c">>, <<"n", ".", "c", ".">>,
      <<"n", "o", " ", "c", "o", "n", "n", "e", "c", "t">>,
      <<"n", "o", "c", "o", "n", "n", "e", "c", "t">>,
      <<"n", "_", "c">>, <<"n", "a">>, <<"n", "/", "a">> }

\* The classifier without lower(): "NC" would pass for a signal.
is_valid_signal_case_sensitive(signal) ==
    IF signal = <<>> THEN FALSE
    ELSE Strip(signal) \notin NotConnected

is_valid_signal(signal) ==
    IF signal = <<>> THEN FALSE
    ELSE Strip(Lower(signal)) \notin NotConnected

---------------------------------------------------------------------------
(* Pin ordering *)

\* float(pin) succeeds: the pin labels of the model are made of digits and
\* letters, and of those float() accepts the non-empty digit strings.
IsNumeric(pin) == pin # <<>> /\ \A i \in 1..Len(pin) : pin[i] \in Digits

RECURSIVE FloatOf(_)
FloatOf(pin) ==
    IF pin = <<>> THEN 0
    ELSE 10 * FloatOf(SubSeq(pin, 1, Len(pin) - 1)) + (Ord(pin[Len(pin)]) - Ord("0"))

\* The key without float(): every label compared as text.
SortKeyLessLexical(p, q) == StrLess(p, q)

\* sort_key(pin) < sort_key(other): (0, float(pin)) or (1, pin), as tuples.
SortKeyLess(p, q) ==
    IF IsNumeric(p) /\ IsNumeric(q) THEN FloatOf(p) < FloatOf(q)
    ELSE IF IsNumeric(p) THEN TRUE
    ELSE IF IsNumeric(q) THEN FALSE
    ELSE StrLess(p, q)

sorted_pins(pins) ==
    SortBy(pins, [i \in 1..Len(pins) |->
                     [j \in 1..Len(pins) |-> SortKeyLess(pins[i], pins[j])]])

---------------------------------------------------------------------------
(* Insertion-ordered dictionaries *)

\* The key of a connector in the position dictionaries: f"{mod}:{conn}".
Key(mod, conn) == mod \o <<":">> \o conn

\* A dict keyed by strings, as the sequence of its items in insertion order.
HasKey(d, key) == \E i \in 1..Len(d) : d[i].key = key

Get(d, key) == d[CHOOSE i \in 1..Len(d) : d[i].key = key]

\* d[key] = item: a new key is appended, an existing key keeps its place.
Put(d, key, item) ==
    IF HasKey(d, key)
    THEN [i \in 1..Len(d) |-> IF d[i].key = key THEN item ELSE d[i]]
    ELSE Append(d, item)

\* left_connectors / right_connectors: the nested defaultdicts, as the
\* sequence of their (module, connector, pin) leaves in insertion order.
\* A leaf holds the list of {signal, row_idx} appended to it.
AddPin(index, mod, conn, pin, entry) ==
    IF \E i \in 1..Len(index) :
           index[i].mod = mod /\ index[i].conn = conn /\ index[i].pin = pin
    THEN [i \in 1..Len(index) |->
            IF index[i].mod = mod /\ index[i].conn = conn /\ index[i].pin = pin
            THEN [index[i] EXCEPT !.conns = Append(@, entry)]
            ELSE index[i]]
    ELSE Append(index, [mod |-> mod, conn |-> conn, pin |-> pin,
                        conns |-> <<entry>>])

\* connectors_dict.keys(): the modules, in insertion order.
RECURSIVE Dedup(_)
Dedup(s) ==
    IF s = <<>> THEN <<>>
    ELSE LET front == Dedup(SubSeq(s, 1, Len(s) - 1))
         IN  IF s[Len(s)] \in Range(front) THEN front
             ELSE Append(front, s[Len(s)])

ModuleKeys(index) == Dedup([i \in 1..Len(index) |-> index[i].mod])

\* connectors_dict[mod].keys(), as a set (the program always sorts it).
ConnectorKeys(index, mod) ==
    {index[i].conn : i \in {j \in 1..Len(index) : index[j].mod = mod}}

\* connectors_dict[mod][conn]: the pins of a connector, in insertion order.
RECURSIVE SelectSeq2(_, _, _)
SelectSeq2(index, mod, conn) ==
    IF index = <<>> THEN <<>>
    ELSE LET front == SelectSeq2(SubSeq(index, 1, Len(index) - 1), mod, conn)
             e == index[Len(index)]
         IN  IF e.mod = mod /\ e.conn = conn THEN Append(front, e) ELSE front

PinsDict(index, mod, conn) == SelectSeq2(index, mod, conn)

---------------------------------------------------------------------------
(* Input rows and their filter *)

\* df.dropna / astype(str).str.strip / != '' / != 'nan' / dropna.
KeepRow(row) ==
    /\ row.Pin1 # NaN /\ row.Pin2 # NaN
    /\ Strip(row.Pin1) # <<>> /\ Strip(row.Pin2) # <<>>
    /\ Lower(Strip(row.Pin1)) # <<"n", "a", "n">>
    /\ Lower(Strip(row.Pin2)) # <<"n", "a", "n">>
    /\ row.Modulo1 # NaN /\ row.Conector1 # NaN
    /\ row.Modulo2 # NaN /\ row.Conector2 # NaN

CleanRow(row) ==
    [row EXCEPT !.Pin1 = Strip(row.Pin1), !.Pin2 = Strip(row.Pin2)]

RECURSIVE FilterRows(_)
FilterRows(rs) ==
    IF rs = <<>> THEN <<>>
    ELSE LET front == FilterRows(SubSeq(rs, 1, Len(rs) - 1))
             r == rs[Len(rs)]
         IN  IF KeepRow(r) THEN Append(front, CleanRow(r)) ELSE front

\* str(row[...]).strip() if pd.notna(row[...]) else ''
SignalOf(cell) == IF cell = NaN THEN <<>> ELSE Strip(cell)

---------------------------------------------------------------------------
(* Topology indexer: the loop over df.iterrows() *)

\* One iteration, on the row at index idx (0-based, as reset_index leaves it).
IndexRow(acc, row, idx) ==
    LET mod1 == Strip(row.Modulo1)
        conn1 == Strip(row.Conector1)
        pin1 == row.Pin1
        signal1 == SignalOf(row.Senal1)
        mod2 == Strip(row.Modulo2)
        conn2 == Strip(row.Conector2)
        pin2 == row.Pin2
        signal2 == SignalOf(row.Senal2)
        signal1_valid == is_valid_signal(signal1)
        signal2_valid == is_valid_signal(signal2)
    IN  IF ~signal1_valid /\ ~signal2_valid THEN acc
        ELSE [left |-> IF signal1_valid
                       THEN AddPin(acc.left, mod1, conn1, pin1,
                                   [signal |-> signal1, row_idx |-> idx])
                       ELSE acc.left,
              right |-> IF signal2_valid
                        THEN AddPin(acc.right, mod2, conn2, pin2,
                                    [signal |-> signal2, row_idx |-> idx])
                        ELSE acc.right,
              connections |->
                  IF signal1_valid /\ signal2_valid
                  THEN Append(acc.connections,
                              [mod1 |-> mod1, conn1 |-> conn1, pin1 |-> pin1,
                               signal1 |-> signal1, mod2 |-> mod2,
                               conn2 |-> conn2, pin2 |-> pin2,
                               signal2 |-> signal2, row_idx |-> idx])
                  ELSE acc.connections]

RECURSIVE IndexRows(_, _)
IndexRows(frame, n) ==
    IF n = 0 THEN [left |-> <<>>, right |-> <<>>, connections |-> <<>>]
    ELSE IndexRow(IndexRows(frame, n - 1), frame[n], n - 1)

---------------------------------------------------------------------------
(* Diagram configuration *)

connector_width == 240

connector_padding == 20

pin_height == 28

module_spacing == 50

horizontal_gap == 450

margin_x == 50

margin_y == 100

\* The fixed part of a connector's height: len(pins_list) * pin_height + 60.
header_height == 60

spacing == 12

base_offset == 30

pin_start_y == 50

---------------------------------------------------------------------------
(* Connector boxes *)

\* pins_list: one entry per pin of the connector, in sorted(keys, sort_key)
\* order, showing the signal of the first record appended to the pin.
pins_list(pins_dict) ==
    LET sorted_keys == sorted_pins([i \in 1..Len(pins_dict) |-> pins_dict[i].pin])
    IN  [k \in 1..Len(sorted_keys) |->
            LET connections_list ==
                    pins_dict[CHOOSE i \in 1..Len(pins_dict) :
                                  pins_dict[i].pin = sorted_keys[k]].conns
            IN  [pin |-> sorted_keys[k],
                 signal |-> connections_list[1].signal,
                 connections |-> connections_list]]

connector_height(pins) == Len(pins) * pin_height + header_height

x_pos(is_left) ==
    IF is_left THEN margin_x ELSE margin_x + connector_width + horizontal_gap

\* The dict stored under positions[key].
Box(key, x, y, pins, mod, conn) ==
    [key |-> key, x |-> x, y |-> y, width |-> connector_width,
     height |-> connector_height(pins), pins |-> pins,
     module |-> mod, connector |-> conn]

\* for mod in sorted(d.keys()): for conn in sorted(d[mod].keys()), flattened;
\* last marks the last connector of its module.
RECURSIVE GroupsOf(_, _)
GroupsOf(index, mods) ==
    IF mods = <<>> THEN <<>>
    ELSE LET cs == SortedStrings(ConnectorKeys(index, mods[1]))
         IN  [i \in 1..Len(cs) |->
                 [mod |-> mods[1], conn |-> cs[i], last |-> i = Len(cs)]]
             \o GroupsOf(index, Tail(mods))

SortedGroups(index) == GroupsOf(index, SortedStrings(Range(ModuleKeys(index))))

---------------------------------------------------------------------------
(* Provisional positions and centers of mass *)

RECURSIVE InitialFold(_, _, _, _)
InitialFold(index, groups, n, is_left) ==
    IF n = 0 THEN [positions |-> <<>>, y |-> margin_y]
    ELSE LET acc == InitialFold(index, groups, n - 1, is_left)
             g == groups[n]
             key == Key(g.mod, g.conn)
             pins == pins_list(PinsDict(index, g.mod, g.conn))
             below == acc.y + connector_height(pins) + connector_padding
         IN  [positions |->
                  Put(acc.positions, key,
                      Box(key, x_pos(is_left), acc.y, pins, g.mod, g.conn)),
              y |-> IF g.last THEN below + module_spacing ELSE below]

calculate_initial_positions(index, is_left) ==
    LET groups == SortedGroups(index)
    IN  InitialFold(index, groups, Len(groups), is_left).positions

\* The sum of a sequence of integers.
RECURSIVE SumSeq(_)
SumSeq(s) == IF s = <<>> THEN 0 ELSE s[1] + SumSeq(Tail(s))

\* calculate_center_of_mass for is_left = True; the quotient
\* weighted_sum / total_weight is kept as the pair [num, den].
calculate_center_of_mass(module_key, conns, positions_dict, other_positions_dict) ==
    IF ~HasKey(positions_dict, module_key) THEN [num |-> 0, den |-> 1]
    ELSE LET hits(conn_key) ==
                 [i \in 1..Len(conns) |->
                     IF /\ Key(conns[i].mod1, conns[i].conn1) = conn_key
                        /\ HasKey(other_positions_dict,
                                  Key(conns[i].mod2, conns[i].conn2))
                     THEN [w |-> 1,
                           y |-> Get(other_positions_dict,
                                     Key(conns[i].mod2, conns[i].conn2)).y]
                     ELSE [w |-> 0, y |-> 0]]
             per_key ==
                 [k \in 1..Len(positions_dict) |->
                     IF StartsWith(positions_dict[k].key, module_key \o <<":">>)
                     THEN hits(positions_dict[k].key)
                     ELSE <<>>]
             weighted_sum ==
                 SumSeq([k \in 1..Len(per_key) |->
                     SumSeq([i \in 1..Len(per_key[k]) |->
                         per_key[k][i].y * per_key[k][i].w])])
             total_weight ==
                 SumSeq([k \in 1..Len(per_key) |->
                     SumSeq([i \in 1..Len(per_key[k]) |-> per_key[k][i].w])])
         IN  IF total_weight = 0 THEN [num |-> 0, den |-> 1]
             ELSE [num |-> weighted_sum, den |-> total_weight]

\* a < b for two quotients with positive denominators.
CenterLess(a, b) == a.num * b.den < b.num * a.den

\* sorted(left_modules.keys(), key=lambda m: left_modules[m])
SortedLeftModules(lc, rc, conns) ==
    LET temp_left == calculate_initial_positions(lc, TRUE)
        temp_right == calculate_initial_positions(rc, FALSE)
        center(m) == calculate_center_of_mass(m, conns, temp_left, temp_right)
        mods == ModuleKeys(lc)
    IN  SortBy(mods, [i \in 1..Len(mods) |-> [j \in 1..Len(mods) |->
                         CenterLess(center(mods[i]), center(mods[j]))]])

\* The order of the walk: for mod in sorted_left_modules:
\*                            for conn in sorted(left_connectors[mod].keys())
WalkOrder(lc, mods) == GroupsOf(lc, mods)

---------------------------------------------------------------------------
(* The walk over the LEFT connectors *)

\* connected_right_modules of a LEFT key.
ConnectedRightModules(conns, left_key) ==
    {conns[i].mod2 : i \in {j \in 1..Len(conns) :
                              Key(conns[j].mod1, conns[j].conn1) = left_key}}

\* The co-placement without its has_connection test.
HasConnectionAny(conns, left_key, right_mod_name, right_conn_name) == TRUE

\* has_connection: some connection leaves left_key for this RIGHT connector.
HasConnection(conns, left_key, right_mod_name, right_conn_name) ==
    \E i \in 1..Len(conns) :
        /\ Key(conns[i].mod1, conns[i].conn1) = left_key
        /\ conns[i].mod2 = right_mod_name
        /\ conns[i].conn2 = right_conn_name

\* The co-placement loop over the set itself, without sorted().
CoPlacementOrderOfSet(connected, set_order) == set_order

\* The order in which the co-placement loop visits the connected modules:
\* sorted(connected_right_modules).  set_order is the iteration order of the
\* set itself, which the loop does not use.
CoPlacementOrder(connected, set_order) == SortedStrings(connected)

\* The co-placement loops, over the candidates in visiting order.
RECURSIVE CoPlace(_, _, _, _, _, _, _)
CoPlace(cands, n, rc, conns, left_key, positions, start_y) ==
    IF n = 0 THEN [positions |-> positions, y |-> start_y, placed |-> <<>>]
    ELSE LET acc == CoPlace(cands, n - 1, rc, conns, left_key, positions, start_y)
             c == cands[n]
             right_key == Key(c.mod, c.conn)
             right_pins_list == pins_list(PinsDict(rc, c.mod, c.conn))
             right_x == margin_x + connector_width + horizontal_gap
         IN  IF HasKey(acc.positions, right_key) THEN acc
             ELSE IF ~HasConnection(conns, left_key, c.mod, c.conn) THEN acc
             ELSE [positions |->
                       Put(acc.positions, right_key,
                           Box(right_key, right_x, acc.y, right_pins_list,
                               c.mod, c.conn)),
                   y |-> acc.y + connector_height(right_pins_list)
                             + connector_padding,
                   placed |-> Append(acc.placed, right_key)]

\* The cursor advanced past the LEFT connector alone.
MaxRightYOfLeftOnly(cands, n, positions, floor) == floor

\* max_right_y: the loop over connected_right_modules in the set's own order.
RECURSIVE MaxRightY(_, _, _, _)
MaxRightY(cands, n, positions, floor) ==
    IF n = 0 THEN floor
    ELSE LET rest == MaxRightY(cands, n - 1, positions, floor)
             right_key == Key(cands[n].mod, cands[n].conn)
         IN  IF HasKey(positions, right_key)
             THEN Max(rest, Get(positions, right_key).y
                              + Get(positions, right_key).height)
             ELSE rest

\* One iteration of the inner loop of the walk, for the LEFT connector g.
PlaceStep(lc, rc, conns, lpos, rpos, cy, g, set_order) ==
    LET left_key == Key(g.mod, g.conn)
        pins == pins_list(PinsDict(lc, g.mod, g.conn))
        height == connector_height(pins)
        connected == ConnectedRightModules(conns, left_key)
        co == CoPlace(GroupsOf(rc, CoPlacementOrder(connected, set_order)),
                      Len(GroupsOf(rc, CoPlacementOrder(connected, set_order))),
                      rc, conns, left_key, rpos, cy)
        all == GroupsOf(rc, set_order)
        max_right_y == MaxRightY(all, Len(all), co.positions, cy + height)
    IN  [left_positions |->
             Put(lpos, left_key, Box(left_key, margin_x, cy, pins, g.mod, g.conn)),
         right_positions |-> co.positions,
         current_y |-> max_right_y + module_spacing,
         step |-> [left_key |-> left_key, y |-> cy, height |-> height,
                   placed |-> co.placed]]

\* The iteration orders a set of strings may have.
RECURSIVE Orders(_)
Orders(S) ==
    IF S = {} THEN {<<>>}
    ELSE UNION {{<<e>> \o o : o \in Orders(S \ {e})} : e \in S}

---------------------------------------------------------------------------
(* RIGHT connectors no LEFT connector placed *)

RECURSIVE AppendFold(_, _, _, _, _)
AppendFold(rc, groups, n, positions, start_y) ==
    IF n = 0 THEN [positions |-> positions, y |-> start_y, placed |-> <<>>]
    ELSE LET acc == AppendFold(rc, groups, n - 1, positions, start_y)
             g == groups[n]
             right_key == Key(g.mod, g.conn)
             pins == pins_list(PinsDict(rc, g.mod, g.conn))
             right_x == margin_x + connector_width + horizontal_gap
         IN  IF HasKey(acc.positions, right_key) THEN acc
             ELSE [positions |->
                       Put(acc.positions, right_key,
                           Box(right_key, right_x, acc.y, pins, g.mod, g.conn)),
                   y |-> acc.y + connector_height(pins) + connector_padding,
                   placed |-> Append(acc.placed, right_key)]

\* The appended connectors stacked from the top margin, not from current_y.
AppendUnplacedFromTop(rc, positions, start_y) ==
    AppendFold(rc, SortedGroups(rc), Len(SortedGroups(rc)), positions, margin_y)

AppendUnplaced(rc, positions, start_y) ==
    AppendFold(rc, SortedGroups(rc), Len(SortedGroups(rc)), positions, start_y)

---------------------------------------------------------------------------
(* Pin markers: create_connector_box *)

\* str(n) for a natural number.
RECURSIVE IntToStr(_)
IntToStr(n) ==
    IF n < 10 THEN <<Ascii[Ord("0") + n]>>
    ELSE Append(IntToStr(n \div 10), Ascii[Ord("0") + (n % 10)])

\* f"left:{module}:{connector}:{row_idx}" and f"right:..."
PinIdKey(is_right, module, connector, row_idx) ==
    (IF is_right THEN <<"r", "i", "g", "h", "t">> ELSE <<"l", "e", "f", "t">>)
        \o <<":">> \o module \o <<":">> \o connector \o <<":">> \o IntToStr(row_idx)

\* for conn in connections_list: pin_ids[...] = pin_id
RECURSIVE RegisterPin(_, _, _, _, _, _)
RegisterPin(ids, connections_list, n, pos_data, is_right, pin_id) ==
    IF n = 0 THEN ids
    ELSE LET key == PinIdKey(is_right, pos_data.module, pos_data.connector,
                             connections_list[n].row_idx)
         IN  Put(RegisterPin(ids, connections_list, n - 1, pos_data, is_right,
                             pin_id),
                 key, [key |-> key, id |-> pin_id])

\* for i, pin_data in enumerate(pins): a pin marker, then its text cell.
RECURSIVE RegisterPins(_, _, _, _, _)
RegisterPins(ids, pos_data, n, is_right, box_id) ==
    IF n = 0 THEN ids
    ELSE RegisterPin(RegisterPins(ids, pos_data, n - 1, is_right, box_id),
                     pos_data.pins[n].connections,
                     Len(pos_data.pins[n].connections),
                     pos_data, is_right, box_id + 1 + 2 * (n - 1))

\* acc = [cell_id, pin_ids]; a box takes one id and each pin two.
create_connector_box(acc, pos_data, is_right) ==
    [cell_id |-> acc.cell_id + 1 + 2 * Len(pos_data.pins),
     pin_ids |-> RegisterPins(acc.pin_ids, pos_data, Len(pos_data.pins),
                              is_right, acc.cell_id)]

\* for key in sorted(positions.keys()): create_connector_box(positions[key])
RECURSIVE CreateBoxes(_, _, _, _, _)
CreateBoxes(acc, positions, keys, n, is_right) ==
    IF n = 0 THEN acc
    ELSE create_connector_box(CreateBoxes(acc, positions, keys, n - 1, is_right),
                              Get(positions, keys[n]), is_right)

PositionKeys(positions) == {positions[i].key : i \in 1..Len(positions)}

CreateAllBoxes(lpos, rpos) ==
    LET lkeys == SortedStrings(PositionKeys(lpos))
        rkeys == SortedStrings(PositionKeys(rpos))
        left == CreateBoxes([cell_id |-> 2, pin_ids |-> <<>>], lpos, lkeys,
                            Len(lkeys), FALSE)
    IN  CreateBoxes(left, rpos, rkeys, Len(rkeys), TRUE)

---------------------------------------------------------------------------
(* Cumulative lane offsets *)

RECURSIVE LeftOffsets(_, _, _)
LeftOffsets(groups, n, lpos) ==
    IF n = 0 THEN [offsets |-> <<>>, current |-> 0]
    ELSE LET acc == LeftOffsets(groups, n - 1, lpos)
             key == Key(groups[n].mod, groups[n].conn)
         IN  IF ~HasKey(lpos, key) THEN acc
             ELSE [offsets |-> Put(acc.offsets, key,
                                   [key |-> key, offset |-> acc.current]),
                   current |-> acc.current
                                   + Len(Get(lpos, key).pins) * spacing + spacing]

\* The RIGHT offsets without the running sum: every connector at 0.
RightOffsetsFlat(rpos, n) ==
    [offsets |-> [k \in 1..n |-> [key |-> rpos[k].key, offset |-> 0]],
     current |-> 0]

RECURSIVE RightOffsets(_, _)
RightOffsets(rpos, n) ==
    IF n = 0 THEN [offsets |-> <<>>, current |-> 0]
    ELSE LET acc == RightOffsets(rpos, n - 1)
         IN  [offsets |-> Put(acc.offsets, rpos[n].key,
                              [key |-> rpos[n].key, offset |-> acc.current]),
              current |-> acc.current + Len(rpos[n].pins) * spacing + spacing]

\* offsets.get(key, 0)
OffsetOf(offsets, key) == IF HasKey(offsets, key) THEN Get(offsets, key).offset ELSE 0

---------------------------------------------------------------------------
(* Wire router *)

\* The index of the first pin whose connections hold row_idx; 0 for None
\* (the indices of the model run from 1, the program's from 0).
PinIndex(pins, row_idx) ==
    LET hits == {i \in 1..Len(pins) :
                    \E c \in 1..Len(pins[i].connections) :
                        pins[i].connections[c].row_idx = row_idx}
    IN  IF hits = {} THEN 0 ELSE CHOOSE i \in hits : \A j \in hits : i <= j

\* The exit lane with one lane for every two pins.
left_offset_x_lane_per_two_pins(left_pin_x, left_connector_base, left_pin_idx) ==
    left_pin_x + base_offset + left_connector_base
        + (left_pin_idx \div 2) * spacing

\* The exit lane without the lane of the pin.
left_offset_x_no_pin_lane(left_pin_x, left_connector_base, left_pin_idx) ==
    left_pin_x + base_offset + left_connector_base

\* The lane of a wire on each side: the pin's x, the base offset, the
\* cumulative offset of the connector and the lane of the pin.
left_offset_x(left_pin_x, left_connector_base, left_pin_idx) ==
    left_pin_x + base_offset + left_connector_base + (left_pin_idx * spacing)

right_offset_x(right_pin_x, right_connector_base, right_pin_idx) ==
    right_pin_x - base_offset - right_connector_base - (right_pin_idx * spacing)

\* One iteration of the loop over connections; acc = [cell_id, edges].  An
\* edge keeps, beside what the document holds, the locals of its iteration.
RouteOne(acc, conn, lpos, rpos, ids, loffsets, roffsets) ==
    LET left_key == Key(conn.mod1, conn.conn1)
        right_key == Key(conn.mod2, conn.conn2)
        source_key == PinIdKey(FALSE, conn.mod1, conn.conn1, conn.row_idx)
        target_key == PinIdKey(TRUE, conn.mod2, conn.conn2, conn.row_idx)
    IN  IF ~HasKey(lpos, left_key) \/ ~HasKey(rpos, right_key) THEN acc
        ELSE IF ~HasKey(ids, source_key) \/ ~HasKey(ids, target_key) THEN acc
        ELSE LET left_pos == Get(lpos, left_key)
                 right_pos == Get(rpos, right_key)
                 left_pin_idx == PinIndex(left_pos.pins, conn.row_idx)
                 right_pin_idx == PinIndex(right_pos.pins, conn.row_idx)
                 left_pin_y == left_pos.y + pin_start_y
                                   + (left_pin_idx - 1) * pin_height
                 right_pin_y == right_pos.y + pin_start_y
                                   + (right_pin_idx - 1) * pin_height
                 left_pin_x == left_pos.x + left_pos.width + 5
                 right_pin_x == right_pos.x - 5
                 left_x == left_offset_x(left_pin_x,
                                         OffsetOf(loffsets, left_key),
                                         left_pin_idx - 1)
                 right_x == right_offset_x(right_pin_x,
                                           OffsetOf(roffsets, right_key),
                                           right_pin_idx - 1)
             IN  IF left_pin_idx = 0 \/ right_pin_idx = 0 THEN acc
                 ELSE [cell_id |-> acc.cell_id + 1,
                       edges |-> Append(acc.edges,
                           [id |-> acc.cell_id,
                            row_idx |-> conn.row_idx,
                            source |-> Get(ids, source_key).id,
                            target |-> Get(ids, target_key).id,
                            left_key |-> left_key,
                            right_key |-> right_key,
                            left_pin_idx |-> left_pin_idx - 1,
                            right_pin_idx |-> right_pin_idx - 1,
                            points |-> << <<left_x, left_pin_y + 4>>,
                                          <<left_x, right_pin_y + 4>>,
                                          <<right_x, right_pin_y + 4>> >>])]

RECURSIVE RouteAll(_, _, _, _, _, _, _, _)
RouteAll(conns, n, first_id, lpos, rpos, ids, loffsets, roffsets) ==
    IF n = 0 THEN [cell_id |-> first_id, edges |-> <<>>]
    ELSE RouteOne(RouteAll(conns, n - 1, first_id, lpos, rpos, ids, loffsets,
                           roffsets),
                  conns[n], lpos, rpos, ids, loffsets, roffsets)

---------------------------------------------------------------------------
(* Inputs *)

\* The longest sheet the model reads.
MaxRows == 2

Row(m1, c1, p1, s1, s2, p2, c2, m2) ==
    [Modulo1 |-> m1, Conector1 |-> c1, Pin1 |-> p1, Senal1 |-> s1,
     Senal2 |-> s2, Pin2 |-> p2, Conector2 |-> c2, Modulo2 |-> m2]

\* Connectors of the LEFT side: two connectors of module "A", and a module
\* "A:B" whose connector "C" formats to the key of connector "B:C" of "A".
LeftGroups ==
    { << <<"A">>, <<"C">> >>,
      << <<"A">>, <<"B", ":", "C">> >>,
      << <<"A", ":", "B">>, <<"C">> >> }

\* Connectors of the RIGHT side, of the same shape.
RightGroups ==
    { << <<"X">>, <<"Z">> >>,
      << <<"X">>, <<"Y", ":", "Z">> >>,
      << <<"X", ":", "Y">>, <<"Z">> >> }

PinLabels == { <<"1">>, <<"2">> }

VCC == <<"V", "C", "C">>

\* The rows with a valid signal on both ends, joining equal pin labels.
ConnectedRows ==
    { Row(lg[1], lg[2], p, VCC, VCC, p, rg[2], rg[1]) :
        lg \in LeftGroups, p \in PinLabels, rg \in RightGroups }

\* The rows with one valid end, or none.  The indexer reads no field of an
\* end whose signal is invalid, so that end is the same in all of them.
LeftOnlyRows ==
    { Row(lg[1], lg[2], p1, <<"G", "N", "D">>, <<"N", "C">>, <<"1">>,
          <<"Z">>, <<"X">>) :
        lg \in LeftGroups, p1 \in PinLabels }

RightOnlyRows ==
    { Row(<<"A">>, <<"C">>, <<"1">>, NaN, <<"G", "N", "D">>, p2, rg[2], rg[1]) :
        p2 \in PinLabels, rg \in RightGroups }

UnconnectedRows ==
    { Row(<<"A">>, <<"C">>, <<"1">>, <<"n", "/", "c">>, <<" ", "N", "a">>,
          <<"1">>, <<"Z">>, <<"X">>) }

CompleteRows ==
    ConnectedRows \cup LeftOnlyRows \cup RightOnlyRows \cup UnconnectedRows

\* Rows the filter drops: a missing or blank pin, the text "nan", a missing
\* module or connector name.
IncompleteRows ==
    LET r == Row(<<"A">>, <<"C">>, <<"1">>, VCC, VCC, <<"1">>, <<"Z">>, <<"X">>)
    IN  { [r EXCEPT !.Pin1 = NaN], [r EXCEPT !.Pin1 = <<" ">>],
          [r EXCEPT !.Pin2 = <<"n", "a", "n">>],
          [r EXCEPT !.Modulo1 = NaN], [r EXCEPT !.Conector2 = NaN] }

Sheets(domain, max) == UNION {[1..n -> domain] : n \in 0..max}

---------------------------------------------------------------------------
(* The run *)

NoStep == [left_key |-> <<>>, y |-> 0, height |-> 0, placed |-> <<>>]

InitWith(sheets) ==
    /\ rows \in sheets
    /\ df = <<>>
    /\ left_connectors = <<>>
    /\ right_connectors = <<>>
    /\ connections = <<>>
    /\ sorted_left_modules = <<>>
    /\ walk = <<>>
    /\ left_positions = <<>>
    /\ right_positions = <<>>
    /\ current_y = 0
    /\ pin_ids = <<>>
    /\ cell_id = 2
    /\ left_connector_offsets = <<>>
    /\ right_connector_offsets = <<>>
    /\ edges = <<>>
    /\ written = FALSE
    /\ error = "none"
    /\ last_step = NoStep
    /\ pc = "filter"

Init == InitWith(Sheets(CompleteRows \cup IncompleteRows, MaxRows))

\* The run without its check for an empty frame.
NoValidRowsUnchecked(frame) == FALSE

\* if len(df) == 0: raise ValueError(...)
NoValidRows(frame) == Len(frame) = 0

\* Lines 44-64: the filter; no row left raises ValueError.
Filter ==
    /\ pc = "filter"
    /\ df' = FilterRows(rows)
    /\ IF NoValidRows(df')
       THEN error' = "ValueError" /\ pc' = "failed"
       ELSE error' = error /\ pc' = "index"
    /\ UNCHANGED <<rows, left_connectors, right_connectors, connections,
                   sorted_left_modules, walk, left_positions, right_positions,
                   current_y, pin_ids, cell_id, left_connector_offsets,
                   right_connector_offsets, edges, written, last_step>>

\* Lines 66-126: the loop over the rows.
Index ==
    /\ pc = "index"
    /\ LET ix == IndexRows(df, Len(df))
       IN  /\ left_connectors' = ix.left
           /\ right_connectors' = ix.right
           /\ connections' = ix.connections
    /\ pc' = "order"
    /\ UNCHANGED <<rows, df, sorted_left_modules, walk, left_positions,
                   right_positions, current_y, pin_ids, cell_id,
                   left_connector_offsets, right_connector_offsets, edges,
                   written, error, last_step>>

\* Lines 264-282: provisional positions, centers of mass, the LEFT order.
Order ==
    /\ pc = "order"
    /\ sorted_left_modules' =
           SortedLeftModules(left_connectors, right_connectors, connections)
    /\ walk' = WalkOrder(left_connectors, sorted_left_modules')
    /\ current_y' = margin_y
    /\ pc' = "place"
    /\ UNCHANGED <<rows, df, left_connectors, right_connectors, connections,
                   left_positions, right_positions, pin_ids, cell_id,
                   left_connector_offsets, right_connector_offsets, edges,
                   written, error, last_step>>

\* Lines 284-392: one LEFT connector and the RIGHT connectors it triggers.
PlaceLeft ==
    /\ pc = "place"
    /\ walk # <<>>
    /\ \E set_order \in Orders(ConnectedRightModules(connections,
                                   Key(walk[1].mod, walk[1].conn))) :
         LET r == PlaceStep(left_connectors, right_connectors, connections,
                            left_positions, right_positions, current_y,
                            walk[1], set_order)
         IN  /\ left_positions' = r.left_positions
             /\ right_positions' = r.right_positions
             /\ current_y' = r.current_y
             /\ last_step' = r.step
    /\ walk' = Tail(walk)
    /\ UNCHANGED <<rows, df, left_connectors, right_connectors, connections,
                   sorted_left_modules, pin_ids, cell_id,
                   left_connector_offsets, right_connector_offsets, edges,
                   written, error, pc>>

\* Lines 394-435: the RIGHT connectors the walk did not place.
AppendRight ==
    /\ pc = "place"
    /\ walk = <<>>
    /\ LET r == AppendUnplaced(right_connectors, right_positions, current_y)
       IN  /\ right_positions' = r.positions
           /\ current_y' = r.y
    /\ pc' = "render"
    /\ UNCHANGED <<rows, df, left_connectors, right_connectors, connections,
                   sorted_left_modules, walk, left_positions, pin_ids, cell_id,
                   left_connector_offsets, right_connector_offsets, edges,
                   written, error, last_step>>

\* Lines 451-551: the boxes and their pin markers.
Render ==
    /\ pc = "render"
    /\ LET r == CreateAllBoxes(left_positions, right_positions)
       IN  /\ pin_ids' = r.pin_ids
           /\ cell_id' = r.cell_id
    /\ pc' = "offsets"
    /\ UNCHANGED <<rows, df, left_connectors, right_connectors, connections,
                   sorted_left_modules, walk, left_positions, right_positions,
                   current_y, left_connector_offsets, right_connector_offsets,
                   edges, written, error, last_step>>

\* Lines 553-582: the cumulative offset of every connector.
Offsets ==
    /\ pc = "offsets"
    /\ LET groups == WalkOrder(left_connectors, sorted_left_modules)
       IN  left_connector_offsets' =
               LeftOffsets(groups, Len(groups), left_positions).offsets
    /\ right_connector_offsets' =
           RightOffsets(right_positions, Len(right_positions)).offsets
    /\ pc' = "route"
    /\ UNCHANGED <<rows, df, left_connectors, right_connectors, connections,
                   sorted_left_modules, walk, left_positions, right_positions,
                   current_y, pin_ids, cell_id, edges, written, error,
                   last_step>>

\* Lines 584-666: one edge per connection that passes the lookups.
Route ==
    /\ pc = "route"
    /\ LET r == RouteAll(connections, Len(connections), cell_id,
                         left_positions, right_positions, pin_ids,
                         left_connector_offsets, right_connector_offsets)
       IN  /\ edges' = r.edges
           /\ cell_id' = r.cell_id
    /\ pc' = "write"
    /\ UNCHANGED <<rows, df, left_connectors, right_connectors, connections,
                   sorted_left_modules, walk, left_positions, right_positions,
                   current_y, pin_ids, left_connector_offsets,
                   right_connector_offsets, written, error, last_step>>

\* Lines 668-698: the document is written.
Write ==
    /\ pc = "write"
    /\ written' = TRUE
    /\ pc' = "done"
    /\ UNCHANGED <<rows, df, left_connectors, right_connectors, connections,
                   sorted_left_modules, walk, left_positions, right_positions,
                   current_y, pin_ids, cell_id, left_connector_offsets,
                   right_connector_offsets, edges, error, last_step>>

Next ==
    \/ Filter
    \/ Index
    \/ Order
    \/ PlaceLeft
    \/ AppendRight
    \/ Render
    \/ Offsets
    \/ Route
    \/ Write

Spec == Init /\ [][Next]_vars

\* The same run on sheets that fill one connector on each side with pins
\* whose labels are numbers (two of them equal as numbers), and letters.
PinRowLabels ==
    { <<"1">>, <<"2">>, <<"1", "0">>, <<"0", "1">>, <<"S">>, <<"D">> }

PinRows ==
    { Row(<<"A">>, <<"C">>, p, s, VCC, p, <<"Z">>, <<"X">>) :
        p \in PinRowLabels, s \in {VCC, <<"G", "N", "D">>} }

InitPins == InitWith(Sheets(PinRows, MaxRows + 1))

SpecPins == InitPins /\ [][Next]_vars

\* The most connectors a side of a ladder sheet has.
MaxLadder == 9

\* The same run on ladder sheets: n rows, the i-th joining pin "1" of
\* connector str(i) of one LEFT module to pin "1" of connector str(i) of
\* module "X", so that each side has n connectors of one pin.
Ladder(n, mod) ==
    [i \in 1..n |-> Row(mod, IntToStr(i), <<"1">>, VCC, VCC, <<"1">>,
                        IntToStr(i), <<"X">>)]

InitLanes ==
    InitWith({Ladder(n, mod) : n \in 1..MaxLadder,
                               mod \in {<<"A">>, <<"A", ":", "B">>}})

SpecLanes == InitLanes /\ [][Next]_vars

---------------------------------------------------------------------------
(* Properties *)

LayoutDone == pc \in {"render", "offsets", "route", "write", "done"}

Indexed == pc \notin {"filter", "index", "failed"}

\* A signal is valid when, trimmed and lowercased, it is neither empty nor a
\* synonym of "not connected".
ValidSignal(cell) == Lower(Strip(SignalOf(cell))) \notin NotConnected

\* The rows of df (by row index) whose signal on a side is valid.
ValidLeft == {i \in 0..Len(df) - 1 : ValidSignal(df[i + 1].Senal1)}

ValidRight == {i \in 0..Len(df) - 1 : ValidSignal(df[i + 1].Senal2)}

\* The row indices a pin list holds.
RowsOfPins(pins) ==
    UNION {{pins[k].connections[c].row_idx : c \in 1..Len(pins[k].connections)} :
              k \in 1..Len(pins)}

Disjoint(d, i, j) ==
    d[i].y + d[i].height <= d[j].y \/ d[j].y + d[j].height <= d[i].y

\* C1: once the layout is finished, no two boxes placed on the same side
\* have overlapping Y-intervals.
C1_NoOverlap ==
    LayoutDone =>
        /\ \A i, j \in 1..Len(left_positions) :
               i # j => Disjoint(left_positions, i, j)
        /\ \A i, j \in 1..Len(right_positions) :
               i # j => Disjoint(right_positions, i, j)

\* Two LEFT connectors were placed, each with a RIGHT connector beside it.
C1_Witness ==
    /\ pc = "done"
    /\ Len(left_positions) = 2 /\ Len(right_positions) = 2
    /\ right_positions[1].y = left_positions[1].y
    /\ right_positions[2].y = left_positions[2].y

\* The edges routed for the row with index i.
EdgesOf(i) == {k \in 1..Len(edges) : edges[k].row_idx = i}

\* C2: every row of df yields exactly one wire when both its signals are
\* valid and none otherwise.
C2_OneWirePerValidRow ==
    pc = "done" =>
        \A i \in 0..Len(df) - 1 :
            Cardinality(EdgesOf(i)) =
                IF i \in ValidLeft /\ i \in ValidRight THEN 1 ELSE 0

\* The (module, connector, pin) leaves of an index that hold row index i.
LeavesOf(index, i) ==
    {k \in 1..Len(index) :
        \E c \in 1..Len(index[k].conns) : index[k].conns[c].row_idx = i}

\* C3: a row contributes a pin on a side exactly when its signal on that
\* side is valid, the pin being the row's own (module, connector, pin); it
\* is a connection exactly when both signals are valid; and no box or wire
\* holds a row whose signal there is invalid.
C3_PinsOnlyForValidSignals ==
    Indexed =>
        /\ \A i \in 0..Len(df) - 1 :
            /\ Cardinality(LeavesOf(left_connectors, i)) =
                   IF i \in ValidLeft THEN 1 ELSE 0
            /\ Cardinality(LeavesOf(right_connectors, i)) =
                   IF i \in ValidRight THEN 1 ELSE 0
            /\ \A k \in LeavesOf(left_connectors, i) :
                   /\ left_connectors[k].mod = Strip(df[i + 1].Modulo1)
                   /\ left_connectors[k].conn = Strip(df[i + 1].Conector1)
                   /\ left_connectors[k].pin = df[i + 1].Pin1
            /\ \A k \in LeavesOf(right_connectors, i) :
                   /\ right_connectors[k].mod = Strip(df[i + 1].Modulo2)
                   /\ right_connectors[k].conn = Strip(df[i + 1].Conector2)
                   /\ right_connectors[k].pin = df[i + 1].Pin2
            /\ Cardinality({c \in 1..Len(connections) :
                               connections[c].row_idx = i}) =
                   IF i \in ValidLeft /\ i \in ValidRight THEN 1 ELSE 0
        /\ \A b \in 1..Len(left_positions) :
               RowsOfPins(left_positions[b].pins) \subseteq ValidLeft
        /\ \A b \in 1..Len(right_positions) :
               RowsOfPins(right_positions[b].pins) \subseteq ValidRight
        /\ \A k \in 1..Len(edges) :
               edges[k].row_idx \in ValidLeft \cap ValidRight

\* A row valid on the LEFT only and a row valid on neither side were drawn:
\* one LEFT box with one pin, no RIGHT box, no wire.
C3_Witness ==
    /\ pc = "done"
    /\ Len(df) = 2
    /\ ValidLeft = {0} /\ ValidRight = {}
    /\ Len(left_positions) = 1 /\ Len(left_positions[1].pins) = 1
    /\ right_positions = <<>> /\ edges = <<>>

\* The rows of df, valid on the LEFT (RIGHT), that name the pin of a leaf.
LandLeft(mod, conn, pin) ==
    {i \in ValidLeft : /\ Strip(df[i + 1].Modulo1) = mod
                       /\ Strip(df[i + 1].Conector1) = conn
                       /\ df[i + 1].Pin1 = pin}

LandRight(mod, conn, pin) ==
    {i \in ValidRight : /\ Strip(df[i + 1].Modulo2) = mod
                        /\ Strip(df[i + 1].Conector2) = conn
                        /\ df[i + 1].Pin2 = pin}

Least(S) == CHOOSE i \in S : \A j \in S : i <= j

\* The pin entries labelled pin in the box of connector (mod, conn).
PinEntries(positions, mod, conn, pin) ==
    IF ~HasKey(positions, Key(mod, conn)) THEN {}
    ELSE LET box == Get(positions, Key(mod, conn))
         IN  IF box.module # mod \/ box.connector # conn THEN {}
             ELSE {box.pins[k] : k \in {n \in 1..Len(box.pins) :
                                          box.pins[n].pin = pin}}

\* The rows landing on one pin have one pin entry, holding them all and
\* showing the signal of the first, and each of them that is valid on both
\* ends has its own wire, all of them attached to the marker of that pin.
SharedPin(positions, land, first_signal, end) ==
    /\ Cardinality(positions) = 1
    /\ \A e \in positions :
        /\ RowsOfPins(<<e>>) = land
        /\ e.signal = first_signal
    /\ \A i \in land \cap ValidLeft \cap ValidRight :
        /\ Cardinality(EdgesOf(i)) = 1
        /\ \A j \in land \cap ValidLeft \cap ValidRight :
             \A a \in EdgesOf(i), b \in EdgesOf(j) :
                 /\ (i # j) => edges[a].id # edges[b].id
                 /\ edges[a][end] = edges[b][end]

\* C4: the rows that land on one (module, connector, pin) of a side make
\* one pin entry of that connector, which holds the row index of each of
\* them and shows the signal of the first; each of them that is valid on
\* both ends has its own wire, attached to that one pin.
C4_SharedPinFansOut ==
    pc = "done" =>
        /\ \A k \in 1..Len(left_connectors) :
            LET l == left_connectors[k]
            IN  SharedPin(PinEntries(left_positions, l.mod, l.conn, l.pin),
                          LandLeft(l.mod, l.conn, l.pin),
                          SignalOf(df[Least(LandLeft(l.mod, l.conn, l.pin)) + 1].Senal1),
                          "source")
        /\ \A k \in 1..Len(right_connectors) :
            LET r == right_connectors[k]
            IN  SharedPin(PinEntries(right_positions, r.mod, r.conn, r.pin),
                          LandRight(r.mod, r.conn, r.pin),
                          SignalOf(df[Least(LandRight(r.mod, r.conn, r.pin)) + 1].Senal2),
                          "target")

\* The pins of a box are in order: numbers ascending, then the other labels
\* in lexical order.
PinsInOrder(pins) ==
    \A i, j \in 1..Len(pins) :
        i < j =>
            /\ IsNumeric(pins[j].pin) => IsNumeric(pins[i].pin)
            /\ (IsNumeric(pins[i].pin) /\ IsNumeric(pins[j].pin))
                   => FloatOf(pins[i].pin) <= FloatOf(pins[j].pin)
            /\ (~IsNumeric(pins[i].pin) /\ ~IsNumeric(pins[j].pin))
                   => StrLess(pins[i].pin, pins[j].pin)

\* C5: in every placed box the numeric pin labels come first, ascending by
\* value, and the other labels follow in lexical order.
C5_PinOrder ==
    /\ \A b \in 1..Len(left_positions) : PinsInOrder(left_positions[b].pins)
    /\ \A b \in 1..Len(right_positions) : PinsInOrder(right_positions[b].pins)

PinLabelsOf(box) == [k \in 1..Len(box.pins) |-> box.pins[k].pin]

\* Pins "10", "2" and "S" arrived in that order and are shown as 2, 10, S.
C5_Witness ==
    /\ pc = "done"
    /\ [i \in 1..Len(df) |-> df[i].Pin1] = << <<"1", "0">>, <<"2">>, <<"S">> >>
    /\ Len(left_positions) = 1
    /\ PinLabelsOf(left_positions[1]) = << <<"2">>, <<"1", "0">>, <<"S">> >>

\* The x of the vertical segment of an edge, on the source side.
ExitLane(e) == e.points[1][1]

Dist(a, b) == IF a >= b THEN a - b ELSE b - a

\* C6: two wires that leave the same LEFT connector from pins of different
\* index have exit lanes at least one lane spacing apart.
C6_LanesApart ==
    \A a, b \in 1..Len(edges) :
        (/\ edges[a].left_key = edges[b].left_key
         /\ edges[a].left_pin_idx # edges[b].left_pin_idx)
            => Dist(ExitLane(edges[a]), ExitLane(edges[b])) >= spacing

\* Two wires leave pins 0 and 1 of one LEFT connector.
C6_Witness ==
    /\ pc = "done"
    /\ \E a, b \in 1..Len(edges) :
        /\ edges[a].left_key = edges[b].left_key
        /\ edges[a].left_pin_idx = 0 /\ edges[b].left_pin_idx = 1

\* The walk with every set iterated in sorted order.
RECURSIVE WalkFold(_, _, _, _, _)
WalkFold(groups, n, lc, rc, conns) ==
    IF n = 0
    THEN [left_positions |-> <<>>, right_positions |-> <<>>,
          current_y |-> margin_y]
    ELSE LET acc == WalkFold(groups, n - 1, lc, rc, conns)
         IN  PlaceStep(lc, rc, conns, acc.left_positions, acc.right_positions,
                       acc.current_y, groups[n],
                       SortedStrings(ConnectedRightModules(conns,
                           Key(groups[n].mod, groups[n].conn))))

\* The boxes and wires of a sheet, as one function of its rows.
Pipeline(sheet) ==
    LET frame == FilterRows(sheet)
        ix == IndexRows(frame, Len(frame))
        groups == WalkOrder(ix.left,
                            SortedLeftModules(ix.left, ix.right, ix.connections))
        w == WalkFold(groups, Len(groups), ix.left, ix.right, ix.connections)
        ap == AppendUnplaced(ix.right, w.right_positions, w.current_y)
        boxes == CreateAllBoxes(w.left_positions, ap.positions)
        lo == LeftOffsets(groups, Len(groups), w.left_positions).offsets
        ro == RightOffsets(ap.positions, Len(ap.positions)).offsets
    IN  [left_positions |-> w.left_positions,
         right_positions |-> ap.positions,
         edges |-> RouteAll(ix.connections, Len(ix.connections), boxes.cell_id,
                            w.left_positions, ap.positions, boxes.pin_ids,
                            lo, ro).edges]

\* C7: the boxes and the wires of a finished run are a function of the
\* input rows, whatever order the run iterated its sets in.
C7_Deterministic ==
    pc = "done" =>
        [left_positions |-> left_positions,
         right_positions |-> right_positions,
         edges |-> edges] = Pipeline(rows)

\* A LEFT connector of the finished run is connected to two RIGHT modules.
C7_Witness ==
    /\ pc = "done"
    /\ \E b \in 1..Len(left_positions) :
           Cardinality(ConnectedRightModules(connections,
                                             left_positions[b].key)) >= 2

\* The rows the filter keeps: both pins present, not blank and not the text
\* "nan", both module names and both connector names present.
Survives(row) ==
    /\ NaN \notin {row.Pin1, row.Pin2, row.Modulo1, row.Conector1,
                   row.Modulo2, row.Conector2}
    /\ \A p \in {row.Pin1, row.Pin2} :
           Strip(p) # <<>> /\ Lower(Strip(p)) # <<"n", "a", "n">>

Survivors == {i \in 1..Len(rows) : Survives(rows[i])}

\* C8, as claimed: a run with no row left after the filter fails and writes
\* nothing, and a document is written only when a row that survived the
\* filter is drawn.
C8_WrittenOnlyIfDrawn ==
    /\ (pc # "filter" /\ Survivors = {}) => (pc = "failed" /\ ~written)
    /\ written => (left_positions # <<>> \/ right_positions # <<>>)

\* C8, amended: a run fails, with nothing written, exactly when no row
\* survives the filter; otherwise it runs to the end and writes the
\* document, which is empty when no surviving row has a valid signal.
C8_WrittenIffRowSurvives ==
    /\ pc # "filter" => Len(df) = Cardinality(Survivors)
    /\ (pc # "filter" /\ Survivors = {})
           => (pc = "failed" /\ error = "ValueError" /\ ~written)
    /\ (pc # "filter" /\ Survivors # {}) => (pc # "failed" /\ error = "none")
    /\ written <=> pc = "done"
    /\ (pc = "done" /\ ValidLeft = {} /\ ValidRight = {})
           => (left_positions = <<>> /\ right_positions = <<>> /\ edges = <<>>)

\* A sheet whose rows were all dropped by the filter failed.
C8_Witness ==
    /\ pc = "failed"
    /\ Len(rows) = 2
    /\ error = "ValueError" /\ ~written

\* A step of the walk is about to place the LEFT connector walk[1].
Placing == pc = "place" /\ walk # <<>>

Feeds(left_key, g) ==
    \E c \in 1..Len(connections) :
        /\ connections[c].mod1 \o <<":">> \o connections[c].conn1 = left_key
        /\ connections[c].mod2 = g.mod
        /\ connections[c].conn2 = g.conn

\* The RIGHT connectors a step for left_key places: in alphabetical
\* (module, connector) order, those the LEFT key feeds whose key is not yet
\* placed, a key taken once.
RECURSIVE Triggered(_, _, _)
Triggered(groups, n, left_key) ==
    IF n = 0 THEN <<>>
    ELSE LET front == Triggered(groups, n - 1, left_key)
             g == groups[n]
             key == g.mod \o <<":">> \o g.conn
         IN  IF /\ Feeds(left_key, g)
                /\ ~HasKey(right_positions, key)
                /\ \A k \in 1..Len(front) :
                       front[k].mod \o <<":">> \o front[k].conn # key
             THEN Append(front, g)
             ELSE front

CenterOfMass(m) ==
    LET temp_right == calculate_initial_positions(right_connectors, FALSE)
        mine == {c \in 1..Len(connections) : connections[c].mod1 = m}
        ys == [c \in 1..Len(connections) |->
                  IF c \in mine
                  THEN Get(temp_right,
                           Key(connections[c].mod2, connections[c].conn2)).y
                  ELSE 0]
    IN  IF mine = {} THEN [num |-> 0, den |-> 1]
        ELSE [num |-> SumSeq(ys), den |-> Cardinality(mine)]

\* C10: the LEFT modules are walked in ascending order of center of mass.
C10_OrderedByCenterOfMass ==
    pc \in {"place", "render", "offsets", "route", "write", "done"} =>
        \A i, j \in 1..Len(sorted_left_modules) :
            i < j => ~CenterLess(CenterOfMass(sorted_left_modules[j]),
                                 CenterOfMass(sorted_left_modules[i]))

\* The greatest number of a finite non-empty set.
Highest(S) == CHOOSE m \in S : \A x \in S : x <= m

Bottom(box) == box.y + box.height

\* C11: the step that places a LEFT connector places it at the cursor, which
\* is at or below the bottom of every RIGHT box placed before, and moves
\* the cursor to the lower of the bottom of that LEFT connector and the
\* bottoms of the RIGHT connectors the step placed, plus the module spacing.
C11_CursorBelowStep ==
    [][Placing =>
        LET left_key == walk[1].mod \o <<":">> \o walk[1].conn
            left_box == Get(left_positions', left_key)
            before == Len(right_positions)
            news == {Bottom(right_positions'[k]) :
                        k \in before + 1..Len(right_positions')}
        IN  /\ left_box.y = current_y
            /\ \A k \in 1..before : Bottom(right_positions[k]) <= left_box.y
            /\ current_y' = Highest({Bottom(left_box)} \cup news) + module_spacing
    ]_vars

\* A step placed two RIGHT connectors beside a LEFT connector, the lower of
\* them ending below it, and the cursor moved below that one.
C11_Witness ==
    /\ pc = "place"
    /\ Len(last_step.placed) = 2
    /\ Bottom(Get(right_positions, last_step.placed[2]))
           > last_step.y + last_step.height
    /\ current_y = Bottom(Get(right_positions, last_step.placed[2]))
                       + module_spacing

\* The walk is over and the RIGHT connectors it left are about to be placed.
Appending == pc = "place" /\ walk = <<>>

\* The box of connector (mod, conn) is among the boxes.
Drawn(positions, g) ==
    \E b \in 1..Len(positions) :
        positions[b].module = g.mod /\ positions[b].connector = g.conn

\* C12: after the walk, every RIGHT connector the walk did not place is
\* placed, in alphabetical (module, connector) order: the first at the
\* cursor, which is below every box the walk placed on the RIGHT and is the
\* top margin when there is no LEFT connector, and each next one under the
\* one before, one connector padding apart.
C12_UnplacedAppended ==
    [][Appending =>
        LET groups == SortedGroups(right_connectors)
            NotDrawn(g) == ~Drawn(right_positions, g)
            todo == SelectSeq(groups, NotDrawn)
            before == Len(right_positions)
        IN  /\ Len(right_positions') = before + Len(todo)
            /\ \A k \in 1..before :
                   /\ right_positions'[k] = right_positions[k]
                   /\ Bottom(right_positions[k]) <= current_y
            /\ left_connectors = <<>> => current_y = margin_y
            /\ \A k \in 1..Len(todo) :
                LET box == right_positions'[before + k]
                IN  /\ box.module = todo[k].mod
                    /\ box.connector = todo[k].conn
                    /\ box.y = IF k = 1 THEN current_y
                               ELSE Bottom(right_positions'[before + k - 1])
                                    + connector_padding
    ]_vars

\* C13, as claimed: any two wires that leave the same LEFT connector have
\* different exit lanes, two wires of one shared pin included.
C13_AllLanesDistinct ==
    \A a, b \in 1..Len(edges) :
        (a # b /\ edges[a].left_key = edges[b].left_key)
            => ExitLane(edges[a]) # ExitLane(edges[b])

\* C13, amended: two wires that leave the same LEFT connector have the same
\* exit lane exactly when they leave the same pin of it: the wires of
\* different pins are in different lanes, the wires that fan out from one
\* shared pin are in one lane.
C13_OneLanePerPin ==
    \A a, b \in 1..Len(edges) :
        edges[a].left_key = edges[b].left_key
            => (ExitLane(edges[a]) = ExitLane(edges[b])
                    <=> edges[a].source = edges[b].source)

\* Two wires fan out from one pin of a LEFT connector to two RIGHT
\* connectors, in one exit lane.
C13_Witness ==
    /\ pc = "done"
    /\ \E a, b \in 1..Len(edges) :
        /\ a # b
        /\ edges[a].source = edges[b].source
        /\ edges[a].right_key # edges[b].right_key
        /\ ExitLane(edges[a]) = ExitLane(edges[b])

\* A step of the walk is about to place a LEFT connector after another.
PlacingNext == Placing /\ last_step.left_key # <<>>

\* The distance from the bottom of the LEFT box placed last to the top of
\* the box of the LEFT connector walk[1], once placed.
GapToNext ==
    Get(left_positions', walk[1].mod \o <<":">> \o walk[1].conn).y
        - (last_step.y + last_step.height)

\* How far the lowest RIGHT box of the last step ends below its LEFT box.
Overhang ==
    LET left_bottom == last_step.y + last_step.height
        bottoms == {Bottom(Get(right_positions, last_step.placed[k])) :
                       k \in 1..Len(last_step.placed)}
    IN  Highest({left_bottom} \cup bottoms) - left_bottom

\* C14, as claimed: a LEFT box is placed below the LEFT box placed before
\* it, and no more than the fixed spacing below its bottom.
C14_NoGapBeyondSpacing ==
    [][PlacingNext =>
        /\ Get(left_positions', walk[1].mod \o <<":">> \o walk[1].conn).y
               > last_step.y
        /\ GapToNext <= module_spacing
    ]_vars

\* C14, amended: a LEFT box is placed below the LEFT box placed before it;
\* the gap from the bottom of that one to its top is the module spacing,
\* plus the distance by which the lowest RIGHT box placed beside that one
\* ends below it.
C14_GapCoversRightBoxes ==
    [][PlacingNext =>
        /\ Get(left_positions', walk[1].mod \o <<":">> \o walk[1].conn).y
               > last_step.y
        /\ GapToNext = module_spacing + Overhang
    ]_vars

\* Two LEFT boxes were placed in turn, the second more than the module
\* spacing below the first, beside which a taller RIGHT box was placed.
C14_Witness ==
    /\ pc = "place"
    /\ Len(left_positions) = 2 /\ Len(right_positions) = 1
    /\ right_positions[1].y = left_positions[1].y
    /\ Bottom(right_positions[1]) > Bottom(left_positions[1])
    /\ left_positions[2].y
           = Bottom(right_positions[1]) + module_spacing

\* The x of the vertical run of an edge before the target, on the RIGHT.
EntryLane(e) == e.points[3][1]

Routed == pc \in {"write", "done"}

\* Box j is the next box placed after box i on its side: the next one down.
NextPlaced(positions, i, j) ==
    /\ positions[i].y < positions[j].y
    /\ \A k \in 1..Len(positions) :
           ~(positions[i].y < positions[k].y /\ positions[k].y < positions[j].y)

\* From each connector of a side to the next one placed, the cumulative
\* offset grows by a lane for each pin of the connector and one lane more.
OffsetsGrow(positions, offsets) ==
    \A i, j \in 1..Len(positions) :
        NextPlaced(positions, i, j) =>
            /\ HasKey(offsets, positions[i].key)
            /\ HasKey(offsets, positions[j].key)
            /\ Get(offsets, positions[j].key).offset
                   = Get(offsets, positions[i].key).offset
                     + Len(positions[i].pins) * spacing + spacing

\* C15: on each side the cumulative offset grows, from a connector to the
\* next one placed, by its pins times the lane spacing plus one lane
\* spacing; two wires that leave different LEFT connectors have exit lanes
\* at least a lane spacing apart, and two wires that enter different RIGHT
\* connectors have entry lanes at least a lane spacing apart.
C15_LaneBands ==
    Routed =>
        /\ OffsetsGrow(left_positions, left_connector_offsets)
        /\ OffsetsGrow(right_positions, right_connector_offsets)
        /\ \A a, b \in 1..Len(edges) :
            /\ edges[a].left_key # edges[b].left_key
                   => Dist(ExitLane(edges[a]), ExitLane(edges[b])) >= spacing
            /\ edges[a].right_key # edges[b].right_key
                   => Dist(EntryLane(edges[a]), EntryLane(edges[b])) >= spacing

\* Two wires were routed between two LEFT and two RIGHT connectors, each
\* from a connector of its own to a connector of its own.
C15_Witness ==
    /\ pc = "done"
    /\ Len(left_positions) = 2 /\ Len(right_positions) = 2
    /\ Len(edges) = 2
    /\ edges[1].left_key # edges[2].left_key
    /\ edges[1].right_key # edges[2].right_key

\* C16: the exit lane of every wire is left of its entry lane, and both are
\* strictly between the right edge of the LEFT column and the left edge of
\* the RIGHT column.
C16_LanesInsideGap ==
    Routed =>
        \A k \in 1..Len(edges) :
            /\ ExitLane(edges[k]) < EntryLane(edges[k])
            /\ margin_x + connector_width < ExitLane(edges[k])
            /\ EntryLane(edges[k])
                   < margin_x + connector_width + horizontal_gap

=============================================================================
